---- MODULE Spec2Model ----
(***************************************************************************)
(* JARVIS chat bot: the widget lifecycle manager (useElevenLabsWidget),    *)
(* the ElevenLabsWidget component (both revisions found in the sources),   *)
(* ErrorContext, ErrorLogger and the ChatWindow controller, modelled as    *)
(* one state machine whose steps are the event handlers the browser's      *)
(* event loop runs to completion, each followed by React's re-render and   *)
(* the effects that re-render runs.                                        *)
(***************************************************************************)
EXTENDS Integers, Sequences, FiniteSets, TLC

(* ------------------------------ bounds -------------------------------- *)

\* most AppErrors held in ErrorContext's active set
MaxErrors == 2

\* the clock (Date.now(), in ticks) stops advancing here
MaxTime == 1

\* most script tags ever created in one run
MaxScripts == 2

\* most text messages sent in one run
MaxSends == 2

\* most logging calls made on the ErrorLogger in one run
MaxCalls == 4

\* how many ErrorLogger instances are constructed, the singleton included
MaxLoggers == 3

\* this.maxLogs
maxLogs == 1000

(* ------------------------- strings and messages ----------------------- *)

\* JavaScript's null, for fields that hold a string or null
NullStr == "null"

Chars(s) ==
  CASE s = "Failed to load ElevenLabs script" ->
       <<"F","a","i","l","e","d"," ","t","o"," ","l","o","a","d"," ","E","l","e","v","e","n","L","a","b","s"," ","s","c","r","i","p","t">>
    [] s = "Failed to load ElevenLabs widget script" ->
       <<"F","a","i","l","e","d"," ","t","o"," ","l","o","a","d"," ","E","l","e","v","e","n","L","a","b","s"," ","w","i","d","g","e","t"," ","s","c","r","i","p","t">>
    [] s = "crypto.randomUUID is not a function" ->
       <<"c","r","y","p","t","o",".","r","a","n","d","o","m","U","U","I","D"," ","i","s"," ","n","o","t"," ","a"," ","f","u","n","c","t","i","o","n">>
    [] s = "Widget error occurred" ->
       <<"W","i","d","g","e","t"," ","e","r","r","o","r"," ","o","c","c","u","r","r","e","d">>
    [] s = "ElevenLabs widget not found" ->
       <<"E","l","e","v","e","n","L","a","b","s"," ","w","i","d","g","e","t"," ","n","o","t"," ","f","o","u","n","d">>
    [] s = "microphone blocked" ->
       <<"m","i","c","r","o","p","h","o","n","e"," ","b","l","o","c","k","e","d">>
    [] s = "network voice error" ->
       <<"n","e","t","w","o","r","k"," ","v","o","i","c","e"," ","e","r","r","o","r">>
    [] s = "Message content is required and must be a string" ->
       <<"M","e","s","s","a","g","e"," ","c","o","n","t","e","n","t"," ","i","s"," ","r","e","q","u","i","r","e","d"," ","a","n","d"," ","m","u","s","t"," ","b","e"," ","a"," ","s","t","r","i","n","g">>
    [] s = "microphone" ->
       <<"m","i","c","r","o","p","h","o","n","e">>
    [] s = "getUserMedia" ->
       <<"g","e","t","U","s","e","r","M","e","d","i","a">>
    [] s = "network" ->
       <<"n","e","t","w","o","r","k">>
    [] s = "fetch" ->
       <<"f","e","t","c","h">>
    [] s = "voice" ->
       <<"v","o","i","c","e">>
    [] s = "speech" ->
       <<"s","p","e","e","c","h">>
    [] s = "widget" ->
       <<"w","i","d","g","e","t">>
    [] s = "elevenlabs" ->
       <<"e","l","e","v","e","n","l","a","b","s">>
    [] s = "Microphone access not supported" ->
       <<"M","i","c","r","o","p","h","o","n","e"," ","a","c","c","e","s","s"," ","n","o","t"," ","s","u","p","p","o","r","t","e","d">>
    [] s = "Microphone access denied" ->
       <<"M","i","c","r","o","p","h","o","n","e"," ","a","c","c","e","s","s"," ","d","e","n","i","e","d">>
    [] s = "getUserMedia is not a function" ->
       <<"g","e","t","U","s","e","r","M","e","d","i","a"," ","i","s"," ","n","o","t"," ","a"," ","f","u","n","c","t","i","o","n">>
    [] s = "fetch failed" ->
       <<"f","e","t","c","h"," ","f","a","i","l","e","d">>
    [] s = "speech timeout" ->
       <<"s","p","e","e","c","h"," ","t","i","m","e","o","u","t">>
    [] s = "An unexpected error occurred" ->
       <<"A","n"," ","u","n","e","x","p","e","c","t","e","d"," ","e","r","r","o","r"," ","o","c","c","u","r","r","e","d">>
    [] s = "ElevenLabs" ->
       <<"E","l","e","v","e","n","L","a","b","s">>
    [] OTHER -> <<>>

\* String.prototype.includes on the characters: pat occurs in s at some offset
Includes(s, pat) ==
  LET cs == Chars(s)
      cp == Chars(pat)
  IN \E off \in 0..(Len(cs) - Len(cp)) :
       \A k \in 1..Len(cp) : cs[off + k] = cp[k]

(* ----------------------------- ErrorTaxonomy -------------------------- *)

ERROR_TYPES ==
  { "MICROPHONE_ACCESS_DENIED", "NETWORK_ERROR", "VOICE_PROCESSING_ERROR",
    "WIDGET_INITIALIZATION_ERROR", "UNKNOWN_ERROR" }

\* the manager's `error` when it is null
NullError ==
  [type |-> "null", message |-> NullStr, details |-> <<>>,
   timestamp |-> 0, recoverable |-> FALSE]

createAppError(type, message, details, recoverable, t) ==
  [type |-> type, message |-> message, details |-> details,
   timestamp |-> t, recoverable |-> recoverable]

createApplicationError(type, message, details, recoverable, t) ==
  createAppError(IF type \in ERROR_TYPES THEN type ELSE "UNKNOWN_ERROR",
                 message, details, recoverable, t)

\* Date.prototype.getTime().toString(): the decimal string of the tick count
TimeString(t) == <<"ms", t>>

\* a thrown or reported value: an Error object with a message, or any other value
JsError(message) == [isError |-> TRUE, message |-> message]

(* ------------------------------ ErrorContext -------------------------- *)

errorReducer(errs, action) ==
  CASE action.type = "ADD_ERROR" -> Append(errs, action.payload)
    [] action.type = "REMOVE_ERROR" ->
         SelectSeq(errs, LAMBDA e : TimeString(e.timestamp) # action.payload)
    [] action.type = "CLEAR_ERRORS" -> <<>>
    [] OTHER -> errs

addError(errs, appError) ==
  errorReducer(errs, [type |-> "ADD_ERROR", payload |-> appError])

classify(message) ==
  IF Includes(message, "microphone") \/ Includes(message, "getUserMedia")
    THEN "MICROPHONE_ACCESS_DENIED"
  ELSE IF Includes(message, "network") \/ Includes(message, "fetch")
    THEN "NETWORK_ERROR"
  ELSE IF Includes(message, "voice") \/ Includes(message, "speech")
    THEN "VOICE_PROCESSING_ERROR"
  ELSE IF Includes(message, "widget") \/ Includes(message, "elevenlabs")
    THEN "WIDGET_INITIALIZATION_ERROR"
  ELSE "UNKNOWN_ERROR"

\* handleError that passes no recoverable argument (createError's default, true)
handleErrorAllRecoverable(errs, err, context, t) ==
  addError(errs,
    IF err.isError
      THEN createAppError(classify(err.message), err.message,
                          IF context # "" THEN <<"Context: ", context>> ELSE <<>>,
                          TRUE, t)
      ELSE createAppError("UNKNOWN_ERROR", "An unexpected error occurred",
                          IF context # ""
                            THEN <<"Context: ", context, ", Error: ", err.message>>
                            ELSE <<err.message>>,
                          TRUE, t))

\* handleError that lets a context naming voice decide the kind
handleErrorKindByContext(errs, err, context, t) ==
  LET kind == IF context = "Voice input start" THEN "VOICE_PROCESSING_ERROR"
              ELSE classify(err.message)
  IN addError(errs,
       IF err.isError
         THEN createAppError(kind, err.message,
                             IF context # "" THEN <<"Context: ", context>> ELSE <<>>,
                             kind # "MICROPHONE_ACCESS_DENIED", t)
         ELSE createAppError("UNKNOWN_ERROR", "An unexpected error occurred",
                             IF context # ""
                               THEN <<"Context: ", context, ", Error: ", err.message>>
                               ELSE <<err.message>>,
                             TRUE, t))

handleError(errs, err, context, t) ==
  LET appError ==
        IF err.isError
          THEN createAppError(classify(err.message), err.message,
                              IF context # "" THEN <<"Context: ", context>> ELSE <<>>,
                              classify(err.message) # "MICROPHONE_ACCESS_DENIED", t)
          ELSE createAppError("UNKNOWN_ERROR", "An unexpected error occurred",
                              IF context # ""
                                THEN <<"Context: ", context, ", Error: ", err.message>>
                                ELSE <<err.message>>,
                              TRUE, t)
  IN addError(errs, appError)

(* ------------------------------- state -------------------------------- *)

VARIABLES
  \* useElevenLabsWidget (the manager owned by ChatWindow)
  isConnected, isInCall, isListening, isSpeaking, error, widgetStatus,
  \* ErrorProvider's state.errors and the wall clock
  errors, now,
  \* the component tree and the document
  chatMounted,      \* ChatWindow (with its manager and its widget) is mounted
  version,          \* which revision of ElevenLabsWidget each instance runs
  wMounted,         \* the widget instance is mounted
  isScriptLoaded,   \* guarded revision: its isScriptLoaded state
  wStatus,          \* guarded revision: its own widgetStatus state
  elem,             \* unguarded revision: the element created by createWidget
  scripts,          \* every script tag created so far
  registered,       \* customElements.get('elevenlabs-convai') is defined
  \* ChatWindow
  messages, inputValue, isLoading, chatError, timers, timerSeq,
  \* ErrorLogger: this.logs, this.isProduction; logSeq numbers the entries
  \* (crypto.randomUUID never repeats), appended counts createLogEntry calls
  \* since this.logs was last empty, calls counts the calls of this run
  logs, logSeq, appended, calls, isProduction,
  \* window's 'error'/'unhandledrejection' listener pairs, one per ErrorLogger
  \* constructed, and the entries appended to the buffers of the instances
  \* other than the exported singleton
  listeners, otherAppended,
  \* the last handler that ran, with what the claims need of its pre-state
  last

mgrVars == <<isConnected, isInCall, isListening, isSpeaking, error, widgetStatus>>
ctxVars == <<errors, now>>
widgetVars == <<version, wMounted, isScriptLoaded, wStatus, elem, scripts, registered>>
chatVars == <<messages, inputValue, isLoading, timers, timerSeq>>
logVars == <<logs, logSeq, appended, calls, isProduction, listeners, otherAppended>>
vars == <<mgrVars, ctxVars, chatMounted, widgetVars, chatVars, chatError, logVars, last>>

\* the two places the application renders an ElevenLabsWidget
Inst == {"chat", "layout"}

(* ----------------------- useElevenLabsWidget -------------------------- *)

\* The handlers are written as functions of a record st holding the manager's
\* state and the active error set; `fresh` records that setError was given a
\* newly created object (a new identity for the effects' dependency check).

Cur ==
  [isConnected |-> isConnected, isInCall |-> isInCall,
   isListening |-> isListening, isSpeaking |-> isSpeaking,
   error |-> error, widgetStatus |-> widgetStatus,
   errors |-> errors, fresh |-> FALSE]

\* handleStatusChange whose idle/disconnected case also calls setError(null)
handleStatusChangeIdleClears(st, status) ==
  LET s1 == [st EXCEPT !.widgetStatus = status]
  IN CASE status = "connected" ->
            [s1 EXCEPT !.isConnected = TRUE, !.error = NullError]
       [] status \in {"disconnected", "idle"} ->
            [s1 EXCEPT !.isConnected = FALSE, !.isInCall = FALSE,
                       !.isListening = FALSE, !.isSpeaking = FALSE,
                       !.error = NullError]
       [] status = "in-call" ->
            [s1 EXCEPT !.isInCall = TRUE]
       [] status = "listening" ->
            [s1 EXCEPT !.isListening = TRUE, !.isSpeaking = FALSE]
       [] status = "speaking" ->
            [s1 EXCEPT !.isListening = FALSE, !.isSpeaking = TRUE]
       [] status = "error" ->
            [s1 EXCEPT !.isConnected = FALSE, !.isInCall = FALSE,
                       !.isListening = FALSE, !.isSpeaking = FALSE]
       [] OTHER -> s1

handleStatusChange(st, status) ==
  LET s1 == [st EXCEPT !.widgetStatus = status]
  IN CASE status = "connected" ->
            [s1 EXCEPT !.isConnected = TRUE, !.error = NullError]
       [] status \in {"disconnected", "idle"} ->
            [s1 EXCEPT !.isConnected = FALSE, !.isInCall = FALSE,
                       !.isListening = FALSE, !.isSpeaking = FALSE]
       [] status = "in-call" ->
            [s1 EXCEPT !.isInCall = TRUE]
       [] status = "listening" ->
            [s1 EXCEPT !.isListening = TRUE, !.isSpeaking = FALSE]
       [] status = "speaking" ->
            [s1 EXCEPT !.isListening = FALSE, !.isSpeaking = TRUE]
       [] status = "error" ->
            [s1 EXCEPT !.isConnected = FALSE, !.isInCall = FALSE,
                       !.isListening = FALSE, !.isSpeaking = FALSE]
       [] OTHER -> s1

handleConversationStart(st) ==
  [st EXCEPT !.isInCall = TRUE, !.error = NullError]

handleConversationEnd(st) ==
  [st EXCEPT !.isInCall = FALSE, !.isListening = FALSE, !.isSpeaking = FALSE]

handleWidgetError(st, errorMessage, t) ==
  [st EXCEPT
     !.error = createApplicationError("WIDGET_INITIALIZATION_ERROR", errorMessage,
                                      <<"ElevenLabs widget error">>, TRUE, t),
     !.fresh = TRUE,
     !.errors = handleError(st.errors, JsError(errorMessage), "ElevenLabs widget", t)]

\* connect that reports a missing element on the manager only, leaving out
\* the handleError call of line 103
connectSilent(st, widgetPresent, t) ==
  IF widgetPresent
    THEN [st EXCEPT !.isConnected = TRUE, !.error = NullError]
    ELSE [st EXCEPT
            !.error = createApplicationError("WIDGET_INITIALIZATION_ERROR",
                        "Failed to connect to voice service",
                        <<"ElevenLabs widget not found">>, TRUE, t),
            !.fresh = TRUE]

\* widgetPresent: document.querySelector('elevenlabs-convai') finds an element
connect(st, widgetPresent, t) ==
  IF widgetPresent
    THEN [st EXCEPT !.isConnected = TRUE, !.error = NullError]
    ELSE [st EXCEPT
            !.error = createApplicationError("WIDGET_INITIALIZATION_ERROR",
                        "Failed to connect to voice service",
                        <<"ElevenLabs widget not found">>, TRUE, t),
            !.fresh = TRUE,
            !.errors = handleError(st.errors, JsError("ElevenLabs widget not found"),
                                   "Widget connection", t)]

\* disconnect with the setIsInCall(false) of line 111 left out
disconnectKeepsCall(st) ==
  [st EXCEPT !.isConnected = FALSE, !.isListening = FALSE,
             !.isSpeaking = FALSE, !.error = NullError]

disconnect(st) ==
  [st EXCEPT !.isConnected = FALSE, !.isInCall = FALSE, !.isListening = FALSE,
             !.isSpeaking = FALSE, !.error = NullError]

clearError(st) == [st EXCEPT !.error = NullError]

\* startVoiceInput with the setIsSpeaking(false) of line 148 left out
startVoiceInputKeepsSpeaking(st, rendered, t) ==
  IF ~rendered.isConnected
    THEN [st EXCEPT
            !.error = createApplicationError("WIDGET_INITIALIZATION_ERROR",
                        "Voice service not connected",
                        <<"Cannot start voice input without connection">>, TRUE, t),
            !.fresh = TRUE]
    ELSE [st EXCEPT !.isListening = TRUE]

\* startVoiceInput without the isConnected test of line 135
startVoiceInputNoGuard(st, rendered, t) ==
  [st EXCEPT !.isListening = TRUE, !.isSpeaking = FALSE]

\* rendered: the state of the render whose closure the callback holds
startVoiceInput(st, rendered, t) ==
  IF ~rendered.isConnected
    THEN [st EXCEPT
            !.error = createApplicationError("WIDGET_INITIALIZATION_ERROR",
                        "Voice service not connected",
                        <<"Cannot start voice input without connection">>, TRUE, t),
            !.fresh = TRUE]
    ELSE [st EXCEPT !.isListening = TRUE, !.isSpeaking = FALSE]

startVoiceInputResult(rendered) == rendered.isConnected

stopVoiceInput(st) == [st EXCEPT !.isListening = FALSE]

\* toggleVoiceInput that starts whether or not the manager is listening
toggleVoiceInputAlwaysStarts(st, rendered, t) ==
  startVoiceInput(st, rendered, t)

toggleVoiceInput(st, rendered, t) ==
  IF rendered.isListening THEN stopVoiceInput(st) ELSE startVoiceInput(st, rendered, t)

toggleVoiceInputResult(rendered) ==
  IF rendered.isListening THEN TRUE ELSE startVoiceInputResult(rendered)

\* The cleanup of the effect keyed on [isInCall, disconnect]: when a render
\* changes isInCall, React runs the previous render's cleanup, whose closure
\* still holds the previous isInCall.
cleanupEffect(old, new) ==
  IF old.isInCall # new.isInCall /\ old.isInCall THEN disconnect(new) ELSE new

(* ------------------- rendering and ChatWindow's sync effect ----------- *)

\* widgetError?.message || null
syncError(e) ==
  IF e = NullError \/ e.message = "" THEN NullStr ELSE e.message

\* the dependency list [isConnected, isListening, isSpeaking, widgetError]
depsChanged(a, b) ==
  \/ a.isConnected # b.isConnected
  \/ a.isListening # b.isListening
  \/ a.isSpeaking # b.isSpeaking
  \/ a.error # b.error
  \/ b.fresh

\* One handler's updates (old -> new) are rendered; the manager's cleanup
\* effect and ChatWindow's sync effect run; the cleanup's own updates are
\* rendered in turn. ce is chatState.error as the handler itself left it.
Commit(old, new, ce) ==
  LET final == cleanupEffect(old, new)
  IN /\ isConnected' = final.isConnected
     /\ isInCall' = final.isInCall
     /\ isListening' = final.isListening
     /\ isSpeaking' = final.isSpeaking
     /\ error' = final.error
     /\ widgetStatus' = final.widgetStatus
     /\ errors' = final.errors
     /\ chatError' =
          IF depsChanged(new, [final EXCEPT !.fresh = FALSE])
            THEN syncError(final.error)
          ELSE IF depsChanged(old, new) THEN syncError(new.error)
          ELSE ce

\* A callback held by a torn-down ChatWindow: its setState calls do nothing,
\* what it reported to the (still mounted) ErrorProvider stays reported.
CommitStale(new) ==
  /\ errors' = new.errors
  /\ UNCHANGED <<mgrVars, chatError>>

CommitFor(live, old, new) ==
  IF live THEN Commit(old, new, chatError) ELSE CommitStale(new)

\* `last` names the handler that ran last, its argument or result, whether
\* the component it ran for was still mounted (live), and in `pre` what the
\* handler read of the state it started in
Did(op, arg, pre) == [op |-> op, arg |-> arg, live |-> TRUE, pre |-> pre]

(* --------------------- ElevenLabsWidget: props ------------------------ *)

\* ChatWindow passes the manager's handlers; MainLayout passes console.log
onStatusChange(i, st, status) ==
  IF i = "chat" THEN handleStatusChange(st, status) ELSE st

onConversationStart(i, st) ==
  IF i = "chat" THEN handleConversationStart(st) ELSE st

onConversationEnd(i, st) ==
  IF i = "chat" THEN handleConversationEnd(st) ELSE st

onError(i, st, msg, t) ==
  IF i = "chat" THEN handleWidgetError(st, msg, t) ELSE st

\* document.querySelector('script[src*="convai-widget-embed"]')
ScriptInDocument == \E s \in scripts : s.inDoc

\* document.querySelector('elevenlabs-convai')
WidgetInDocument ==
  \E i \in Inst :
    \/ version[i] = "guarded" /\ wMounted[i] /\ isScriptLoaded[i]
    \/ version[i] = "unguarded" /\ elem[i] = "attached"

NewScript(i) ==
  [id |-> Cardinality(scripts) + 1, owner |-> i, live |-> TRUE,
   inDoc |-> TRUE, state |-> "loading"]

\* the script effect of each revision, run when instance i mounts
loadScript(i) ==
  IF version[i] = "guarded" /\ ScriptInDocument
    THEN /\ isScriptLoaded' = [isScriptLoaded EXCEPT ![i] = TRUE]
         /\ UNCHANGED scripts
    ELSE /\ Cardinality(scripts) < MaxScripts
         /\ scripts' = scripts \cup {NewScript(i)}
         /\ UNCHANGED isScriptLoaded

MountWidget(i) ==
  /\ wMounted' = [wMounted EXCEPT ![i] = TRUE]
  /\ elem' = [elem EXCEPT ![i] = "none"]
  /\ loadScript(i)
  /\ UNCHANGED <<version, wStatus, registered>>

\* unmount: the unguarded revision removes its script tag, the guarded one
\* removes its listeners (they exist only while mounted and script-loaded)
UnmountWidget(i) ==
  /\ wMounted' = [wMounted EXCEPT ![i] = FALSE]
  /\ isScriptLoaded' = [isScriptLoaded EXCEPT ![i] = FALSE]
  /\ wStatus' = [wStatus EXCEPT ![i] = "idle"]
  /\ elem' = [elem EXCEPT ![i] = IF @ = "attached" THEN "detached" ELSE @]
  /\ scripts' =
       { IF s.owner = i /\ s.live
           THEN [s EXCEPT !.live = FALSE,
                          !.inDoc = IF version[i] = "unguarded" THEN FALSE ELSE @]
           ELSE s : s \in scripts }
  /\ UNCHANGED <<version, registered>>

(* ------------------------------ mounting ------------------------------ *)

\* messages the remote widget may put in an error event's detail
\* ("" stands for an event without detail.message)
DetailMessages == {"", "microphone blocked"}

MarkDisconnect(ts) == { [t EXCEPT !.sawDisconnect = TRUE] : t \in ts }

\* ChatWindow mounts: fresh useState values, and its ElevenLabsWidget mounts
ChatMount ==
  /\ ~chatMounted
  /\ chatMounted' = TRUE
  /\ MountWidget("chat")
  /\ last' = Did("ChatMount", "", <<>>)
  /\ UNCHANGED <<mgrVars, ctxVars, chatVars, chatError, logVars>>

\* ChatWindow unmounts: the manager's cleanup runs disconnect() if a call is
\* active (its setState calls reach a component that is going away), the
\* component state is dropped, pending reply timers are left running
ChatUnmount ==
  /\ chatMounted
  /\ chatMounted' = FALSE
  /\ UnmountWidget("chat")
  /\ isConnected' = FALSE /\ isInCall' = FALSE
  /\ isListening' = FALSE /\ isSpeaking' = FALSE
  /\ error' = NullError /\ widgetStatus' = "idle"
  /\ messages' = <<>> /\ inputValue' = <<>> /\ isLoading' = FALSE
  /\ chatError' = NullStr
  /\ timers' = { [t EXCEPT !.live = FALSE] : t \in timers }
  /\ UNCHANGED timerSeq
  /\ last' = Did("ChatUnmount", "", <<>>)
  /\ UNCHANGED <<ctxVars, logVars>>

\* MainLayout.handleWidgetToggle shows or hides its own ElevenLabsWidget
LayoutShow ==
  /\ ~wMounted["layout"]
  /\ MountWidget("layout")
  /\ last' = Did("LayoutShow", "", <<>>)
  /\ UNCHANGED <<mgrVars, ctxVars, chatMounted, chatVars, chatError, logVars>>

LayoutHide ==
  /\ wMounted["layout"]
  /\ UnmountWidget("layout")
  /\ last' = Did("LayoutHide", "", <<>>)
  /\ UNCHANGED <<mgrVars, ctxVars, chatMounted, chatVars, chatError, logVars>>

(* --------------------------- script callbacks ------------------------- *)

SetScript(s, state) == (scripts \ {s}) \cup {[s EXCEPT !.state = state]}

\* script.onload of script s (either revision)
onload(s) ==
  LET i == s.owner
  IN IF version[i] = "unguarded"
       THEN \* createWidget(): returns at once when widgetRef.current is null
            /\ elem' = [elem EXCEPT ![i] = IF s.live THEN "attached" ELSE @]
            /\ UNCHANGED <<isScriptLoaded, wStatus, mgrVars, ctxVars, chatError>>
       ELSE /\ isScriptLoaded' = [isScriptLoaded EXCEPT ![i] = IF s.live THEN TRUE ELSE @]
            /\ wStatus' = [wStatus EXCEPT ![i] = IF s.live THEN "idle" ELSE @]
            /\ CommitFor(i = "layout" \/ s.live, Cur, onStatusChange(i, Cur, "idle"))
            /\ UNCHANGED <<elem, now>>

ScriptLoaded(s) ==
  /\ s.state = "loading"
  /\ scripts' = SetScript(s, "loaded")
  /\ registered' = TRUE
  /\ onload(s)
  /\ last' = [Did("ScriptLoaded", s.owner, <<>>) EXCEPT !.live = s.live]
  /\ UNCHANGED <<chatMounted, version, wMounted, chatVars, logVars>>

\* script.onerror of script s (either revision)
onerror(s) ==
  LET i == s.owner
      s1 == onStatusChange(i, Cur, "error")
  IN IF version[i] = "unguarded"
       THEN LET s2 == onError(i, s1, "Failed to load ElevenLabs script", now)
            IN /\ Len(s2.errors) <= MaxErrors
               /\ CommitFor(i = "layout" \/ s.live, Cur, s2)
               /\ UNCHANGED wStatus
       ELSE LET msg == "Failed to load ElevenLabs widget script"
                s2 == onError(i, s1, msg, now)
                s3 == [s2 EXCEPT !.errors =
                         handleError(s2.errors, JsError(msg),
                                     "ElevenLabs script loading", now)]
            IN /\ Len(s3.errors) <= MaxErrors
               /\ wStatus' = [wStatus EXCEPT ![i] = IF s.live THEN "error" ELSE @]
               /\ CommitFor(i = "layout" \/ s.live, Cur, s3)

ScriptFailed(s) ==
  /\ s.state = "loading"
  /\ scripts' = SetScript(s, "failed")
  /\ onerror(s)
  /\ last' = [Did("ScriptFailed", s.owner, <<>>) EXCEPT !.live = s.live]
  /\ UNCHANGED <<chatMounted, version, wMounted, isScriptLoaded, elem, registered,
                 now, chatVars, logVars>>

(* ----------------------------- widget events -------------------------- *)

\* unguarded revision: the 'elevenlabs-widget-state' listener createWidget
\* attaches to the element. It is never removed, so the element keeps it
\* after the component unmounted ("detached").
WidgetStates == {"connected", "disconnected", "in-call", "listening", "speaking", "error"}

widgetStateListener(i, st, state, t) ==
  CASE state = "connected" -> onStatusChange(i, st, "connected")
    [] state = "disconnected" ->
         onConversationEnd(i, onStatusChange(i, st, "idle"))
    [] state = "in-call" -> onConversationStart(i, st)
    [] state = "listening" -> onStatusChange(i, st, "listening")
    [] state = "speaking" -> onStatusChange(i, st, "speaking")
    [] state = "error" ->
         onError(i, onStatusChange(i, st, "error"), "Widget error occurred", t)
    [] OTHER -> st

WidgetStateEvent(i, state) ==
  /\ version[i] = "unguarded"
  /\ registered
  /\ elem[i] \in {"attached", "detached"}
  /\ LET new == widgetStateListener(i, Cur, state, now)
     IN /\ Len(new.errors) <= MaxErrors
        /\ CommitFor(i = "layout" \/ elem[i] = "attached", Cur, new)
  /\ timers' = IF state = "disconnected" THEN MarkDisconnect(timers) ELSE timers
  /\ last' = [Did("WidgetStateEvent", state,
                   IF state = "error" THEN <<isListening>> ELSE <<>>) EXCEPT !.live = (elem[i] = "attached")]
  /\ UNCHANGED <<now, chatMounted, widgetVars, messages, inputValue, isLoading, timerSeq, logVars>>

\* guarded revision: handleWidgetEvent, attached while the component is
\* mounted with isScriptLoaded and removed by the effect's cleanup
WidgetEvents == {"connect", "disconnect", "call", "error"}

handleWidgetEvent(i, st, type, detail, t) ==
  CASE type = "connect" -> onStatusChange(i, st, "connected")
    [] type = "disconnect" ->
         onConversationEnd(i, onStatusChange(i, st, "idle"))
    [] type = "call" -> onConversationStart(i, st)
    [] type = "error" ->
         LET errorMessage == IF detail # "" THEN detail ELSE "Widget error occurred"
             s1 == onError(i, onStatusChange(i, st, "error"), errorMessage, t)
         IN [s1 EXCEPT !.errors =
               handleError(s1.errors, JsError(errorMessage), "ElevenLabs widget", t)]
    [] OTHER -> st

widgetEventStatus(type, old) ==
  CASE type = "connect" -> "connected"
    [] type = "disconnect" -> "idle"
    [] type = "call" -> "in-call"
    [] type = "error" -> "error"
    [] OTHER -> old

WidgetEvent(i, type, detail) ==
  /\ version[i] = "guarded"
  /\ registered
  /\ wMounted[i] /\ isScriptLoaded[i]
  /\ type = "error" \/ detail = ""
  /\ LET new == handleWidgetEvent(i, Cur, type, detail, now)
     IN /\ Len(new.errors) <= MaxErrors
        /\ Commit(Cur, new, chatError)
  /\ wStatus' = [wStatus EXCEPT ![i] = widgetEventStatus(type, @)]
  /\ timers' = IF type = "disconnect" THEN MarkDisconnect(timers) ELSE timers
  /\ last' = Did("WidgetEvent", type, IF type = "error" THEN <<isListening>> ELSE <<>>)
  /\ UNCHANGED <<now, chatMounted, version, wMounted, isScriptLoaded, elem, scripts,
                 registered, messages, inputValue, isLoading, timerSeq, logVars>>

(* --------------------------- manager commands ------------------------- *)

Connect ==
  /\ chatMounted
  /\ LET new == connect(Cur, WidgetInDocument, now)
     IN /\ Len(new.errors) <= MaxErrors
        /\ Commit(Cur, new, chatError)
  /\ last' = Did("connect", IF WidgetInDocument THEN "found" ELSE "absent", <<isConnected>>)
  /\ UNCHANGED <<now, chatMounted, widgetVars, chatVars, logVars>>

Disconnect ==
  /\ chatMounted
  /\ Commit(Cur, disconnect(Cur), chatError)
  /\ timers' = MarkDisconnect(timers)
  /\ last' = Did("disconnect", "", <<>>)
  /\ UNCHANGED <<now, chatMounted, widgetVars, messages, inputValue, isLoading, timerSeq, logVars>>

ClearError ==
  /\ chatMounted
  /\ Commit(Cur, clearError(Cur), chatError)
  /\ last' = Did("clearError", "", <<>>)
  /\ UNCHANGED <<now, chatMounted, widgetVars, chatVars, logVars>>

\* handleConversationEnd called on its own
ConversationEnd ==
  /\ chatMounted
  /\ Commit(Cur, handleConversationEnd(Cur), chatError)
  /\ last' = Did("conversationEnd", "", <<isInCall>>)
  /\ UNCHANGED <<now, chatMounted, widgetVars, chatVars, logVars>>

StartVoiceInput ==
  /\ chatMounted
  /\ Commit(Cur, startVoiceInput(Cur, Cur, now), chatError)
  /\ last' = Did("startVoiceInput", IF startVoiceInputResult(Cur) THEN "true" ELSE "false",
               <<isSpeaking>>)
  /\ UNCHANGED <<now, chatMounted, widgetVars, chatVars, logVars>>

StopVoiceInput ==
  /\ chatMounted
  /\ Commit(Cur, stopVoiceInput(Cur), chatError)
  /\ last' = Did("stopVoiceInput", "true", <<>>)
  /\ UNCHANGED <<now, chatMounted, widgetVars, chatVars, logVars>>

\* pre: isConnected and isListening as the call found them, followed by the
\* same pair of the call before it when that was a toggleVoiceInput too
ToggleVoiceInput ==
  /\ chatMounted
  /\ Commit(Cur, toggleVoiceInput(Cur, Cur, now), chatError)
  /\ last' = Did("toggleVoiceInput", IF toggleVoiceInputResult(Cur) THEN "true" ELSE "false",
               <<isConnected, isListening>>
                 \o (IF last.op = "toggleVoiceInput"
                       THEN <<last.pre[1], last.pre[2]>> ELSE <<>>))
  /\ UNCHANGED <<now, chatMounted, widgetVars, chatVars, logVars>>

(* ------------------------- ErrorContext, clock ------------------------ *)

\* the toast's onClick: removeError(error.timestamp.getTime().toString())
RemoveError(k) ==
  /\ k \in 1..Len(errors)
  /\ errors[k].recoverable
  /\ errors' = errorReducer(errors, [type |-> "REMOVE_ERROR",
                                      payload |-> TimeString(errors[k].timestamp)])
  /\ last' = Did("removeError", "", <<k>>)
  /\ UNCHANGED <<mgrVars, now, chatMounted, widgetVars, chatVars, chatError, logVars>>

ClearErrors ==
  /\ errors # <<>>
  /\ errors' = errorReducer(errors, [type |-> "CLEAR_ERRORS"])
  /\ last' = Did("clearErrors", "", <<>>)
  /\ UNCHANGED <<mgrVars, now, chatMounted, widgetVars, chatVars, chatError, logVars>>

Tick ==
  /\ now < MaxTime
  /\ now' = now + 1
  /\ last' = Did("tick", "", <<>>)
  /\ UNCHANGED <<mgrVars, errors, chatMounted, widgetVars, chatVars, chatError, logVars>>

(* ------------------------------ the machine --------------------------- *)

InitManager ==
  /\ isConnected = FALSE /\ isInCall = FALSE
  /\ isListening = FALSE /\ isSpeaking = FALSE
  /\ error = NullError /\ widgetStatus = "idle"

InitChat ==
  /\ messages = <<>> /\ inputValue = <<>> /\ isLoading = FALSE
  /\ chatError = NullStr /\ timers = {} /\ timerSeq = 0

\* new ErrorLogger(): initializeLogger() logs 'ErrorLogger initialized'
InitLogger ==
  /\ logs = <<[id |-> 1, level |-> "INFO", message |-> "ErrorLogger initialized"]>>
  /\ logSeq = 1 /\ appended = 1 /\ calls = 0
  /\ isProduction = FALSE
  /\ listeners = 1 /\ otherAppended = 0

Init ==
  /\ InitManager
  /\ errors = <<>> /\ now = 0
  /\ chatMounted = FALSE
  /\ version \in {v \in [Inst -> {"unguarded", "guarded"}] : v["layout"] = "guarded"}
  /\ wMounted = [i \in Inst |-> FALSE]
  /\ isScriptLoaded = [i \in Inst |-> FALSE]
  /\ wStatus = [i \in Inst |-> "idle"]
  /\ elem = [i \in Inst |-> "none"]
  /\ scripts = {}
  /\ registered = FALSE
  /\ InitChat
  /\ InitLogger
  /\ last = [op |-> "init", arg |-> "", live |-> TRUE,
             pre |-> <<>>]

\* the manager with the widget ChatWindow renders for it
Next ==
  \/ ChatMount
  \/ \E s \in scripts : ScriptLoaded(s)
  \/ \E s \in scripts : ScriptFailed(s)
  \/ \E i \in Inst, state \in WidgetStates : WidgetStateEvent(i, state)
  \/ \E i \in Inst, type \in WidgetEvents, detail \in DetailMessages :
       WidgetEvent(i, type, detail)
  \/ Connect
  \/ Disconnect
  \/ ClearError
  \/ StartVoiceInput
  \/ StopVoiceInput
  \/ ToggleVoiceInput
  \/ ClearErrors

Spec == Init /\ [][Next]_vars

\* the component tree and the document: both widget instances mount and
\* unmount, scripts load or fail, connect() looks the element up, and the
\* widgets dispatch the events that connect, start a call or report an error
NextDoc ==
  \/ ChatMount
  \/ ChatUnmount
  \/ LayoutShow
  \/ LayoutHide
  \/ \E s \in scripts : ScriptLoaded(s)
  \/ \E s \in scripts : ScriptFailed(s)
  \/ \E i \in Inst, state \in {"connected", "in-call", "error"} :
       WidgetStateEvent(i, state)
  \/ \E i \in Inst, type \in {"connect", "call", "error"} : WidgetEvent(i, type, "")
  \/ Connect
  \/ ClearErrors

\* the manager with handleConversationEnd as a command of its own
NextMgr ==
  \/ Next
  \/ ConversationEnd

SpecMgr == Init /\ [][NextMgr]_vars

SpecDoc == Init /\ [][NextDoc]_vars

(* ------------------------------ ErrorLogger --------------------------- *)

\* Array.prototype.slice(start): a negative start counts from the end, and
\* -0 is 0
slice(arr, start) ==
  LET from == IF start < 0
                THEN (IF Len(arr) + start > 0 THEN Len(arr) + start ELSE 0)
                ELSE (IF start < Len(arr) THEN start ELSE Len(arr))
  IN SubSeq(arr, from + 1, Len(arr))

\* createLogEntry that keeps the first maxLogs entries (slice(0, maxLogs))
createLogEntryKeepsOldest(lg, id, level, message) ==
  LET pushed == Append(lg, [id |-> id, level |-> level, message |-> message])
  IN IF Len(pushed) > maxLogs THEN SubSeq(pushed, 1, maxLogs) ELSE pushed

\* createLogEntry: push, then keep the last maxLogs entries
createLogEntry(lg, id, level, message) ==
  LET pushed == Append(lg, [id |-> id, level |-> level, message |-> message])
  IN IF Len(pushed) > maxLogs THEN slice(pushed, -maxLogs) ELSE pushed

\* one call of createLogEntry on the logger
Log(level, message) ==
  /\ calls < MaxCalls
  /\ calls' = calls + 1
  /\ logSeq' = logSeq + 1
  /\ appended' = appended + 1
  /\ logs' = createLogEntry(logs, logSeq + 1, level, message)
  /\ last' = Did("log", level, <<>>)
  /\ UNCHANGED <<isProduction, listeners, otherAppended, mgrVars, ctxVars, chatMounted, widgetVars, chatVars,
                 chatError>>

LogError == Log("ERROR", "error")

LogWarn == Log("WARN", "warn")

LogInfo == Log("INFO", "info")

\* debug() returns null before createLogEntry in production
LogDebug ==
  /\ ~isProduction
  /\ Log("DEBUG", "debug")

\* logPerformance: WARN above 1000 ms, INFO otherwise
LogPerformance(duration) ==
  Log(IF duration > 1000 THEN "WARN" ELSE "INFO", "Performance")

\* clearLogs that takes its count after the 'Cleared' entry was written
ClearLogsCountsAfter ==
  /\ calls < MaxCalls
  /\ calls' = calls + 1
  /\ logSeq' = logSeq + 1
  /\ appended' = 1
  /\ logs' = createLogEntry(<<>>, logSeq + 1, "INFO", "Cleared log entries")
  /\ last' = Did("clearLogs", "", <<Len(logs')>>)
  /\ UNCHANGED <<isProduction, listeners, otherAppended, mgrVars, ctxVars, chatMounted, widgetVars, chatVars,
                 chatError>>

\* clearLogs(): takes the count, empties the buffer, logs 'Cleared n log
\* entries' and returns the count (recorded in last.pre)
ClearLogs ==
  /\ calls < MaxCalls
  /\ calls' = calls + 1
  /\ logSeq' = logSeq + 1
  /\ appended' = 1
  /\ logs' = createLogEntry(<<>>, logSeq + 1, "INFO", "Cleared log entries")
  /\ last' = Did("clearLogs", "", <<Len(logs)>>)
  /\ UNCHANGED <<isProduction, listeners, otherAppended, mgrVars, ctxVars, chatMounted, widgetVars, chatVars,
                 chatError>>

\* getRecentLogs(count): this.logs.slice(-count)
getRecentLogs(lg, count) == slice(lg, -count)

\* the counts getRecentLogs is called with
Counts == {0, 1, 2}

\* one call of getRecentLogs; the returned array is recorded in last.pre
GetRecentLogs(count) ==
  /\ last' = Did("getRecentLogs", "", <<count, getRecentLogs(logs, count)>>)
  /\ UNCHANGED <<logVars, mgrVars, ctxVars, chatMounted, widgetVars, chatVars,
                 chatError>>

\* new ErrorLogger(): initializeLogger adds the instance's two window
\* listeners and writes 'ErrorLogger initialized' to the instance's own
\* buffer. listeners counts the instances whose handlers are registered (the
\* exported singleton is the first), otherAppended the entries written to
\* the buffers of the other instances.
Construct ==
  /\ listeners < MaxLoggers
  /\ listeners' = listeners + 1
  /\ otherAppended' = otherAppended + 1
  /\ last' = Did("construct", "", <<>>)
  /\ UNCHANGED <<logs, logSeq, appended, calls, isProduction, mgrVars, ctxVars,
                 chatMounted, widgetVars, chatVars, chatError>>

\* a window event reaches the handler of every constructed instance; each
\* handler calls this.error on its own instance
WindowEvent(op, message) ==
  /\ calls < MaxCalls
  /\ calls' = calls + 1
  /\ logSeq' = logSeq + 1
  /\ appended' = appended + 1
  /\ logs' = createLogEntry(logs, logSeq + 1, "ERROR", message)
  /\ otherAppended' = otherAppended + (listeners - 1)
  /\ last' = Did(op, "", <<>>)
  /\ UNCHANGED <<isProduction, listeners, mgrVars, ctxVars, chatMounted, widgetVars,
                 chatVars, chatError>>

\* window 'error' event: handleGlobalError
GlobalError == WindowEvent("globalError", "Global JavaScript Error")

\* window 'unhandledrejection' event: handleUnhandledRejection
UnhandledRejection == WindowEvent("unhandledRejection", "Unhandled Promise Rejection")

\* how many INFO entries the logger already took before the run starts:
\* none, or enough to leave room for two more
Prefills == {0, maxLogs - 3}

InitLog ==
  /\ InitManager
  /\ errors = <<>> /\ now = 0
  /\ chatMounted = FALSE
  /\ version = [i \in Inst |-> "guarded"]
  /\ wMounted = [i \in Inst |-> FALSE]
  /\ isScriptLoaded = [i \in Inst |-> FALSE]
  /\ wStatus = [i \in Inst |-> "idle"]
  /\ elem = [i \in Inst |-> "none"]
  /\ scripts = {}
  /\ registered = FALSE
  /\ InitChat
  /\ last = [op |-> "init", arg |-> "", live |-> TRUE, pre |-> <<>>]
  /\ isProduction \in BOOLEAN
  /\ calls = 0
  /\ listeners = 1 /\ otherAppended = 0
  /\ \E n \in Prefills :
       /\ logs = [k \in 1..(n + 1) |->
                    [id |-> k, level |-> "INFO",
                     message |-> IF k = 1 THEN "ErrorLogger initialized" ELSE "info"]]
       /\ logSeq = n + 1
       /\ appended = n + 1

NextLog ==
  \/ LogError
  \/ LogWarn
  \/ LogInfo
  \/ LogDebug
  \/ \E duration \in {500, 1500} : LogPerformance(duration)
  \/ ClearLogs

SpecLog == InitLog /\ [][NextLog]_vars

\* the logger with its queries, further instances and the window events
NextLogger ==
  \/ LogInfo
  \/ ClearLogs
  \/ \E count \in Counts : GetRecentLogs(count)
  \/ Construct
  \/ GlobalError
  \/ UnhandledRejection

SpecLogger == InitLog /\ [][NextLogger]_vars

\* C4: the buffer never holds more than maxLogs entries; it always holds the
\* most recently appended entries in insertion order, and exactly maxLogs of
\* them once more than maxLogs have been appended.
C4_RingBuffer ==
  /\ Len(logs) <= maxLogs
  /\ Len(logs) = (IF appended < maxLogs THEN appended ELSE maxLogs)
  /\ \A k \in 1..Len(logs) : logs[k].id = logSeq - Len(logs) + k

\* C4 witness: more than maxLogs entries were appended, so the oldest ones
\* were evicted.
C4_Witness == appended > maxLogs /\ logs[1].id > 1

(* ------------------------------- ChatWindow --------------------------- *)

\* what the user may have typed: empty, blank, a word, a padded word
InputValues == { <<>>, <<" ">>, <<"H", "i">>, <<" ", "H", "i", " ">> }

\* two of the five canned replies handleSendMessage picks from at random.
\* Text is a sequence of characters; a run of text that neither starts nor
\* ends with white space is written as one element.
Responses ==
  { <<"I understand your request. How can I assist you further?">>,
    <<"Thank you for your input. How may I be of service?">> }

RECURSIVE trimStart(_)
trimStart(s) ==
  IF s # <<>> /\ Head(s) = " " THEN trimStart(Tail(s)) ELSE s

RECURSIVE trimEnd(_)
trimEnd(s) ==
  IF s # <<>> /\ s[Len(s)] = " " THEN trimEnd(SubSeq(s, 1, Len(s) - 1)) ELSE s

\* String.prototype.trim
trim(s) == trimEnd(trimStart(s))

createMessage(content, sender, type) ==
  [content |-> content, sender |-> sender, type |-> type, status |-> "sent"]

\* createChatMessage: validates, then createMessage(content.trim(), ...);
\* every caller passes a non-empty string and a valid sender and type
createChatMessage(content, sender, type) ==
  createMessage(trim(content), sender, type)

NewTimer == [id |-> timerSeq + 1, live |-> TRUE, sawDisconnect |-> FALSE]

\* handleSendMessage that tests content instead of content.trim()
handleSendMessageNoTrim(content) ==
  IF content = <<>>
    THEN /\ UNCHANGED <<messages, inputValue, isLoading, timers, timerSeq>>
         /\ last' = Did("sendText", "rejected", <<content>>)
    ELSE /\ timerSeq < MaxSends
         /\ timerSeq' = timerSeq + 1
         /\ messages' = Append(messages, createChatMessage(trim(content), "user", "text"))
         /\ inputValue' = <<>>
         /\ isLoading' = TRUE
         /\ timers' = timers \cup {NewTimer}
         /\ last' = Did("sendText", "accepted", <<content>>)

\* handleSendMessage(content); last.pre holds the content it was given
handleSendMessage(content) ==
  IF trim(content) = <<>>
    THEN /\ UNCHANGED <<messages, inputValue, isLoading, timers, timerSeq>>
         /\ last' = Did("sendText", "rejected", <<content>>)
    ELSE /\ timerSeq < MaxSends
         /\ timerSeq' = timerSeq + 1
         /\ messages' = Append(messages, createChatMessage(trim(content), "user", "text"))
         /\ inputValue' = <<>>
         /\ isLoading' = TRUE
         /\ timers' = timers \cup {NewTimer}
         /\ last' = Did("sendText", "accepted", <<content>>)

\* what createMessage throws where crypto.randomUUID is missing
SendFailure == JsError("crypto.randomUUID is not a function")

\* handleSendMessage(inputValue) whose createChatMessage call throws: the
\* catch branch sets chatState.error, clears the loading flag and reports
\* the error
SendMessageFails ==
  /\ chatMounted
  /\ trim(inputValue) # <<>>
  /\ Len(errors) < MaxErrors
  /\ chatError' = "Failed to send message. Please try again."
  /\ isLoading' = FALSE
  /\ errors' = handleError(errors, SendFailure, "Message sending", now)
  /\ last' = Did("sendText", "failed", <<inputValue>>)
  /\ UNCHANGED <<mgrVars, now, chatMounted, widgetVars, messages, inputValue, timers,
                 timerSeq, logVars>>

\* the input's onChange; the input is disabled while loading or listening
TypeInput(v) ==
  /\ chatMounted
  /\ ~isLoading /\ ~isListening
  /\ v # inputValue
  /\ inputValue' = v
  /\ last' = Did("type", "", <<>>)
  /\ UNCHANGED <<mgrVars, ctxVars, chatMounted, widgetVars, messages, isLoading, timers,
                 timerSeq, chatError, logVars>>

\* the form's onSubmit; its button is disabled for blank input and while
\* loading or listening
SubmitForm ==
  /\ chatMounted
  /\ trim(inputValue) # <<>> /\ ~isLoading /\ ~isListening
  /\ handleSendMessage(inputValue)
  /\ UNCHANGED <<mgrVars, ctxVars, chatMounted, widgetVars, chatError, logVars>>

\* keydown Ctrl/Cmd+Enter anywhere in the document
KeyCtrlEnter ==
  /\ chatMounted
  /\ handleSendMessage(inputValue)
  /\ UNCHANGED <<mgrVars, ctxVars, chatMounted, widgetVars, chatError, logVars>>

\* a reply timer that stays armed after firing (setInterval for setTimeout)
TimerFireRepeats(t, response) ==
  /\ t \in timers
  /\ UNCHANGED <<timers, timerSeq>>
  /\ Len(messages) < 2 * MaxSends + 1
  /\ IF t.live
       THEN /\ messages' = Append(messages, createChatMessage(response, "assistant", "text"))
            /\ isLoading' = FALSE
       ELSE UNCHANGED <<messages, isLoading>>
  /\ last' = [Did("timer", "", <<t.sawDisconnect>>) EXCEPT !.live = t.live]
  /\ UNCHANGED <<mgrVars, ctxVars, chatMounted, widgetVars, inputValue, chatError, logVars>>

\* a reply timer that puts its reply in place of the timeline
TimerFireReplaces(t, response) ==
  /\ t \in timers
  /\ timers' = timers \ {t}
  /\ UNCHANGED timerSeq
  /\ IF t.live
       THEN /\ messages' = <<createChatMessage(response, "assistant", "text")>>
            /\ isLoading' = FALSE
       ELSE UNCHANGED <<messages, isLoading>>
  /\ last' = [Did("timer", "", <<t.sawDisconnect>>) EXCEPT !.live = t.live]
  /\ UNCHANGED <<mgrVars, ctxVars, chatMounted, widgetVars, inputValue, chatError, logVars>>

\* a reply timer without the setIsLoading(false) of line 269
TimerFireKeepsLoading(t, response) ==
  /\ t \in timers
  /\ timers' = timers \ {t}
  /\ UNCHANGED timerSeq
  /\ IF t.live
       THEN /\ messages' = Append(messages, createChatMessage(response, "assistant", "text"))
            /\ UNCHANGED isLoading
       ELSE UNCHANGED <<messages, isLoading>>
  /\ last' = [Did("timer", "", <<t.sawDisconnect>>) EXCEPT !.live = t.live]
  /\ UNCHANGED <<mgrVars, ctxVars, chatMounted, widgetVars, inputValue, chatError, logVars>>

\* the reply timer of one send fires. setState of an unmounted ChatWindow
\* does nothing.
TimerFire(t, response) ==
  /\ t \in timers
  /\ timers' = timers \ {t}
  /\ UNCHANGED timerSeq
  /\ IF t.live
       THEN /\ messages' = Append(messages, createChatMessage(response, "assistant", "text"))
            /\ isLoading' = FALSE
       ELSE UNCHANGED <<messages, isLoading>>
  /\ last' = [Did("timer", "", <<t.sawDisconnect>>) EXCEPT !.live = t.live]
  /\ UNCHANGED <<mgrVars, ctxVars, chatMounted, widgetVars, inputValue, chatError, logVars>>

\* handleVoiceToggle, from the microphone button (disabled while loading)
VoiceToggle ==
  /\ chatMounted
  /\ ~isLoading
  /\ Commit(Cur, toggleVoiceInput(Cur, Cur, now),
            IF toggleVoiceInputResult(Cur) THEN chatError
            ELSE "Failed to toggle voice input. Please try again.")
  /\ last' = Did("voiceToggle", IF toggleVoiceInputResult(Cur) THEN "true" ELSE "false", <<>>)
  /\ UNCHANGED <<now, chatMounted, widgetVars, chatVars, logVars>>

\* handleVoiceToggle: toggleVoiceInput(); chatState.error is set when it
\* returns false
handleVoiceToggle ==
  Commit(Cur, toggleVoiceInput(Cur, Cur, now),
         IF toggleVoiceInputResult(Cur) THEN chatError
         ELSE "Failed to toggle voice input. Please try again.")

\* keydown Escape that clears the input whether or not voice input is active
KeyEscapeClearsAlways ==
  /\ chatMounted
  /\ IF isListening
       THEN /\ handleVoiceToggle
            /\ inputValue' = <<>>
       ELSE /\ inputValue' = <<>>
            /\ UNCHANGED <<mgrVars, errors, chatError>>
  /\ last' = Did("escape", "", <<isListening, inputValue>>)
  /\ UNCHANGED <<now, chatMounted, widgetVars, messages, isLoading, timers, timerSeq,
                 logVars>>

\* keydown Escape anywhere in the document: stops voice input if listening,
\* else clears a non-empty input
KeyEscape ==
  /\ chatMounted
  /\ IF isListening
       THEN /\ handleVoiceToggle
            /\ UNCHANGED inputValue
       ELSE /\ inputValue' = <<>>
            /\ UNCHANGED <<mgrVars, errors, chatError>>
  /\ last' = Did("escape", "", <<isListening, inputValue>>)
  /\ UNCHANGED <<now, chatMounted, widgetVars, messages, isLoading, timers, timerSeq,
                 logVars>>

\* keydown Space that toggles wherever the focus is
KeySpaceIgnoresFocus(focused) ==
  /\ chatMounted
  /\ handleVoiceToggle
  /\ last' = Did("space", IF focused THEN "input" ELSE "elsewhere",
                 <<toggleVoiceInput(Cur, Cur, now)>>)
  /\ UNCHANGED <<now, chatMounted, widgetVars, chatVars, logVars>>

\* keydown Space; focused: document.activeElement is the chat text input.
\* last.pre holds what one toggleVoiceInput would have made of the state.
KeySpace(focused) ==
  /\ chatMounted
  /\ IF focused
       THEN UNCHANGED <<mgrVars, errors, chatError>>
       ELSE handleVoiceToggle
  /\ last' = Did("space", IF focused THEN "input" ELSE "elsewhere",
                 <<toggleVoiceInput(Cur, Cur, now)>>)
  /\ UNCHANGED <<now, chatMounted, widgetVars, chatVars, logVars>>

\* getCurrentStatus with the busy states tested before the error
getCurrentStatusBusyFirst(ce, speaking, listening, loading, connected) ==
  IF speaking THEN "speaking"
  ELSE IF listening THEN "listening"
  ELSE IF loading THEN "processing"
  ELSE IF ce # NullStr THEN "error"
  ELSE IF connected THEN "connected"
  ELSE "idle"

\* getCurrentStatus of a render with chatState.error ce
getCurrentStatus(ce, speaking, listening, loading, connected) ==
  IF ce # NullStr THEN "error"
  ELSE IF speaking THEN "speaking"
  ELSE IF listening THEN "listening"
  ELSE IF loading THEN "processing"
  ELSE IF connected THEN "connected"
  ELSE "idle"

\* the chat controller with its manager and its widget
NextChat ==
  \/ ChatMount
  \/ ChatUnmount
  \/ \E s \in scripts : ScriptLoaded(s)
  \/ \E i \in Inst, type \in {"connect", "disconnect"} : WidgetEvent(i, type, "")
  \/ \E i \in Inst, state \in {"connected", "disconnected"} : WidgetStateEvent(i, state)
  \/ Disconnect
  \/ VoiceToggle
  \/ \E v \in InputValues : TypeInput(v)
  \/ SubmitForm
  \/ KeyCtrlEnter
  \/ \E t \in timers, response \in Responses : TimerFire(t, response)

SpecChat == Init /\ [][NextChat]_vars

\* the chat controller with its keyboard commands and a failing send
NextKeys ==
  \/ NextChat
  \/ KeyEscape
  \/ \E focused \in BOOLEAN : KeySpace(focused)
  \/ SendMessageFails

SpecKeys == Init /\ [][NextKeys]_vars

\* what the status label is derived from: the widget's states, the voice
\* toggle, sends with their replies and failures, and clearError
NextStatus ==
  \/ ChatMount
  \/ \E s \in scripts : ScriptLoaded(s)
  \/ \E state \in WidgetStates : WidgetStateEvent("chat", state)
  \/ VoiceToggle
  \/ ClearError
  \/ \E v \in InputValues : TypeInput(v)
  \/ KeyCtrlEnter
  \/ \E t \in timers, response \in Responses : TimerFire(t, response)
  \/ SendMessageFails

SpecStatus == Init /\ [][NextStatus]_vars

(* ================================ claims ============================== *)

\* C1: in every reachable state of the manager, after any sequence of widget
\* events, conversation callbacks and commands, isListening and isSpeaking
\* are never both true.
C1_ListeningSpeakingExclusive == ~(isListening /\ isSpeaking)

\* C1 witness: startVoiceInput succeeded in a state where the widget had
\* reported speaking, and the manager is now listening.
C1_Witness ==
  /\ last.op = "startVoiceInput" /\ last.arg = "true" /\ last.pre = <<TRUE>>
  /\ isListening

C2_ClearingStep ==
  \/ last'.op \in {"clearError", "disconnect"}
  \/ last'.op = "connect" /\ last'.arg = "found"
  \/ last'.op = "WidgetStateEvent" /\ last'.arg \in {"connected", "in-call"}
  \/ last'.op = "WidgetEvent" /\ last'.arg \in {"connect", "call"}
  \/ isInCall /\ ~isInCall'

C3_OneErrorPerEvent ==
  [][(/\ last'.op \in {"WidgetEvent", "WidgetStateEvent"}
      /\ last'.arg = "error" /\ last'.live
      /\ isListening)
       => /\ error' # NullError
          /\ ~isListening' /\ ~isSpeaking' /\ ~isInCall'
          /\ Len(errors') = Len(errors) + 1
          /\ errors'[Len(errors')].type \in ERROR_TYPES]_vars

\* C5: at most one script tag for the widget URL is ever injected, however
\* many instances mount, re-render and unmount.
C5_AtMostOneScript == Cardinality(scripts) <= 1

\* C6: a load or error callback of a script whose component was torn down
\* while it was loading changes no state and reports nothing.
C6_StaleCallbackIgnored ==
  [][(last'.op \in {"ScriptLoaded", "ScriptFailed"} /\ ~last'.live)
       => UNCHANGED <<mgrVars, errors, chatError, isScriptLoaded, wStatus, elem>>]_vars

\* C10: connect() when isConnected is already true changes none of
\* isConnected, isInCall, isListening, isSpeaking and error, and reports
\* nothing to ErrorContext, whether or not the element is in the document.
C10_ConnectIdempotent ==
  [][(last'.op = "connect" /\ isConnected)
       => UNCHANGED <<isConnected, isInCall, isListening, isSpeaking, error, errors>>]_vars

(* ------------------------------ ChatWindow claims --------------------- *)

NumBy(sender) == Cardinality({ k \in 1..Len(messages) : messages[k].sender = sender })

LiveTimers == { t \in timers : t.live }

\* C7: a reply timer that was pending when the chat controller was unmounted
\* or the widget was disconnected appends no assistant message and leaves
\* the loading flag alone when it fires.
C7_TimerCancelled ==
  [][ (last'.op = "timer" /\ (last'.pre[1] \/ ~last'.live))
        => UNCHANGED <<messages, isLoading>> ]_vars

\* C8: an accepted send on an empty timeline appends exactly one user/text
\* message and that message's status is 'sending'.
C8_UserMessageStartsSending ==
  [][ (last'.op = "sendText" /\ last'.arg = "accepted" /\ messages = <<>>)
        => /\ Len(messages') = 1
           /\ messages'[1].sender = "user" /\ messages'[1].type = "text"
           /\ messages'[1].status = "sending" ]_vars

\* C9: assistant replies never outnumber user messages, and every user
\* message of the timeline has either its one reply or its one pending
\* timer; so once all timers of k accepted sends have fired the timeline
\* holds k user and k assistant messages.
C9_OneReplyPerSend ==
  /\ NumBy("assistant") <= NumBy("user")
  /\ NumBy("user") = NumBy("assistant") + Cardinality(LiveTimers)

\* C9 witness: two sends were accepted and both reply timers have fired (the
\* input is disabled while a reply is pending, so sends and replies alternate)
C9_Witness ==
  /\ timers = {} /\ timerSeq = 2 /\ Len(messages) = 4
  /\ messages[1].sender = "user" /\ messages[2].sender = "assistant"
  /\ messages[3].sender = "user" /\ messages[4].sender = "assistant"

(* --------------------------- manager commands ------------------------- *)

WIE == "WIDGET_INITIALIZATION_ERROR"

\* C11: connect() on a manager that is not connected: with no widget element
\* in the document isConnected stays false and a WIDGET_INITIALIZATION_ERROR
\* is recorded on the manager and added to the active set; with the element
\* present isConnected becomes true and the manager's error becomes null.
C11_ConnectOutcome ==
  [][(last'.op = "connect" /\ ~isConnected)
       => IF WidgetInDocument
            THEN isConnected' /\ error' = NullError /\ errors' = errors
            ELSE /\ ~isConnected'
                 /\ error'.type = WIE
                 /\ Len(errors') = Len(errors) + 1
                 /\ errors'[Len(errors')].type = WIE]_vars

\* C11 witness: a connect() that found no element left the manager
\* disconnected with the error recorded
C11_Witness ==
  /\ last.op = "connect" /\ last.arg = "absent" /\ last.pre = <<FALSE>>
  /\ ~isConnected /\ error.type = WIE
  /\ errors # <<>> /\ errors[Len(errors)].message = "ElevenLabs widget not found"

\* C12: disconnect() in any state records no error and leaves isConnected,
\* isInCall, isListening and isSpeaking all false.
C12_DisconnectSafe ==
  [][last'.op = "disconnect"
       => /\ ~isConnected' /\ ~isInCall' /\ ~isListening' /\ ~isSpeaking'
          /\ error' = NullError
          /\ errors' = errors]_vars

\* C12 witness: disconnect() ran on a manager whose widget had reported an
\* active call (the status value, which disconnect leaves alone, still says so)
C12_Witness ==
  /\ last.op = "disconnect"
  /\ widgetStatus \in {"listening", "speaking"}
  /\ ~isConnected /\ ~isInCall /\ ~isListening /\ ~isSpeaking

\* C13: with isConnected false, toggleVoiceInput returns failure, records a
\* WIDGET_INITIALIZATION_ERROR and leaves isConnected, isInCall, isListening
\* and isSpeaking unchanged.
C13_ToggleFailsFast ==
  [][(last'.op = "toggleVoiceInput" /\ ~isConnected)
       => /\ last'.arg = "false"
          /\ error'.type = WIE
          /\ UNCHANGED <<isConnected, isInCall, isListening, isSpeaking>>]_vars

\* C14: with isConnected false, startVoiceInput returns false and leaves
\* isListening unchanged.
C14_StartFailsDisconnected ==
  [][(last'.op = "startVoiceInput" /\ ~isConnected)
       => last'.arg = "false" /\ isListening' = isListening]_vars

\* C14 witness: startVoiceInput returned false on a disconnected manager
C14_Witness ==
  /\ last.op = "startVoiceInput" /\ last.arg = "false"
  /\ ~isConnected /\ error.message = "Voice service not connected"

\* C15: two successive toggleVoiceInput calls on a connected manager bring
\* isListening back to its value before the first, and isConnected stays true.
C15_ToggleTwice ==
  (/\ last.op = "toggleVoiceInput" /\ Len(last.pre) = 4
   /\ last.pre[3])
    => /\ last.pre[1] /\ isConnected
       /\ isListening = last.pre[4]

\* C15 witness: listening, toggled off, toggled on again
C15_Witness ==
  /\ last.op = "toggleVoiceInput" /\ Len(last.pre) = 4
  /\ last.pre[3] /\ last.pre[4] /\ ~last.pre[2] /\ isListening

(* ------------------------- manager state shape ------------------------ *)

\* C16: in every reachable state isListening or isSpeaking implies
\* isConnected, whatever order status events and commands arrive in.
C16_VoiceImpliesConnected == (isListening \/ isSpeaking) => isConnected

\* C17: the status value and the booleans agree: 'listening' exactly when
\* isListening, 'speaking' exactly when isSpeaking, and 'idle' or 'error'
\* only when isConnected is false.
C17_StatusAgrees ==
  /\ (widgetStatus = "listening") <=> isListening
  /\ (widgetStatus = "speaking") <=> isSpeaking
  /\ widgetStatus \in {"idle", "error"} => ~isConnected

\* C18: a widget event dispatched after its component was torn down reaches
\* no listener: it changes no state and reports no error.
C18_NoEventsAfterTeardown ==
  [][(last'.op \in {"WidgetStateEvent", "WidgetEvent"} /\ ~last'.live)
       => UNCHANGED <<mgrVars, errors, chatError>>]_vars

\* C19: an instance is marked script-loaded only once the script's load has
\* completed successfully, never while the script is loading or after its
\* load failed.
C19_LoadedOnlyAfterLoad ==
  \A i \in Inst :
    isScriptLoaded[i] => \E s \in scripts : s.inDoc /\ s.state = "loaded"

\* C20: when the script fails to load for a mounted widget, the status
\* becomes 'error' and every AppError the failure adds to the active set is a
\* recoverable WIDGET_INITIALIZATION_ERROR, and at least one is added.
C20_ScriptFailureReported ==
  [][(last'.op = "ScriptFailed" /\ last'.live)
       => /\ last'.arg = "chat" => widgetStatus' = "error"
          /\ Len(errors') > Len(errors)
          /\ \A k \in (Len(errors) + 1)..Len(errors') :
                errors'[k].type = WIE /\ errors'[k].recoverable]_vars

(* ---------------------- ErrorProvider's interface --------------------- *)

\* messages of the Error objects handed to handleError
Messages ==
  { "microphone blocked", "network voice error", "speech timeout",
    "Failed to load ElevenLabs script", "ElevenLabs widget not found" }

\* what a catch block may hand over: an Error, or any other thrown value
ThrownValues ==
  { JsError(m) : m \in Messages } \cup { [isError |-> FALSE, message |-> "timeout"] }

Contexts == {"", "Voice input start"}

\* kinds a caller may pass to createError
CallerKinds == {"NETWORK_ERROR", "CUSTOM_ERROR"}

\* ErrorProvider.createError: createAppError as it is
createError(type, message, details, recoverable, t) ==
  createAppError(type, message, details, recoverable, t)

\* what requestMicrophonePermission rejects with: an Error when the media API
\* is missing, and otherwise the plain object createApplicationError built
\* (not an Error; String() of it is "[object Object]")
requestMicrophonePermission(outcome) ==
  IF outcome = "unsupported"
    THEN JsError("Microphone access not supported")
    ELSE [isError |-> FALSE, message |-> "[object Object]"]

HandleError(err, context) ==
  /\ Len(errors) < MaxErrors
  /\ errors' = handleError(errors, err, context, now)
  /\ last' = Did("handleError", "", <<err.isError, err.message>>)
  /\ UNCHANGED <<mgrVars, now, chatMounted, widgetVars, chatVars, chatError, logVars>>

\* addError(createError(type, ...)) called by a component
AddError(type) ==
  /\ Len(errors) < MaxErrors
  /\ errors' = addError(errors, createError(type, "Something failed",
                                            <<"reported by caller">>, TRUE, now))
  /\ last' = Did("addError", "", <<>>)
  /\ UNCHANGED <<mgrVars, now, chatMounted, widgetVars, chatVars, chatError, logVars>>

\* requestMicrophonePermission().catch(e => handleError(e, ...))
MicrophoneFailure(outcome) ==
  /\ Len(errors) < MaxErrors
  /\ errors' = handleError(errors, requestMicrophonePermission(outcome),
                           "Microphone permission", now)
  /\ last' = Did("microphoneFailure", outcome, <<>>)
  /\ UNCHANGED <<mgrVars, now, chatMounted, widgetVars, chatVars, chatError, logVars>>

NextCtx ==
  \/ \E err \in ThrownValues, context \in Contexts : HandleError(err, context)
  \/ \E type \in CallerKinds : AddError(type)
  \/ \E outcome \in {"denied", "unsupported"} : MicrophoneFailure(outcome)
  \/ \E k \in 1..MaxErrors : RemoveError(k)
  \/ ClearErrors
  \/ Tick

SpecCtx == Init /\ [][NextCtx]_vars

(* -------------------------- ErrorContext claims ----------------------- *)

MIC == "MICROPHONE_ACCESS_DENIED"

\* the active set with its k-th error taken out
RemoveAt(errs, k) == SubSeq(errs, 1, k - 1) \o SubSeq(errs, k + 1, Len(errs))

\* the error the last call appended
Newest(errs) == errs[Len(errs)]

\* C21: every step that adds an error to the active set also appends an
\* entry to ErrorLogger's buffer.
C21_EveryErrorLogged ==
  [][Len(errors') > Len(errors) => appended' > appended]_vars

\* C22: removeError(id), called for the k-th active error, removes exactly
\* that error and keeps every other one in its place.
C22_RemoveExactlyOne ==
  [][last'.op = "removeError" => errors' = RemoveAt(errors, last'.pre[1])]_vars

\* C23: every AppError in the active set has one of the five taxonomy kinds.
C23_KindsClosed ==
  \A k \in 1..Len(errors) : errors[k].type \in ERROR_TYPES

\* C24: each handleError call appends exactly one AppError, whose recoverable
\* flag is false exactly when its kind is MICROPHONE_ACCESS_DENIED; a value
\* that is not an Error is stored as a recoverable UNKNOWN_ERROR.
C24_OnePerCallRecoverable ==
  [][last'.op = "handleError"
       => /\ Len(errors') = Len(errors) + 1
          /\ SubSeq(errors', 1, Len(errors)) = errors
          /\ Newest(errors').type \in ERROR_TYPES
          /\ Newest(errors').recoverable <=> Newest(errors').type # MIC
          /\ ~last'.pre[1]
               => Newest(errors').type = "UNKNOWN_ERROR" /\ Newest(errors').recoverable]_vars

\* C24 witness: handleError stored a microphone error, not recoverable
C24_Witness ==
  /\ last.op = "handleError" /\ errors # <<>>
  /\ Newest(errors).type = MIC /\ ~Newest(errors).recoverable

\* the kind the taxonomy's vocabulary gives a message, the vendor's name
\* being the name as the vendor writes it or in lower case
VocabularyKind(m) ==
  IF Includes(m, "microphone") THEN MIC
  ELSE IF Includes(m, "network") \/ Includes(m, "fetch") THEN "NETWORK_ERROR"
  ELSE IF Includes(m, "voice") \/ Includes(m, "speech") THEN "VOICE_PROCESSING_ERROR"
  ELSE IF Includes(m, "widget") \/ Includes(m, "elevenlabs") \/ Includes(m, "ElevenLabs")
    THEN WIE
  ELSE "UNKNOWN_ERROR"

\* C25: handleError gives an Error the kind of the first vocabulary its
\* message contains, in the order microphone, network/fetch, voice/speech,
\* widget/vendor name, and UNKNOWN_ERROR otherwise.
C25_ClassifiedByVocabulary ==
  [][(last'.op = "handleError" /\ last'.pre[1])
       => Newest(errors').type = VocabularyKind(last'.pre[2])]_vars

\* handleError built this error from an Error object
FromError(e) == e.details = <<>> \/ e.details[1] = "Context: "

C27_MicrophoneFailureKind ==
  [][last'.op = "microphoneFailure"
       => Newest(errors').type = MIC /\ ~Newest(errors').recoverable]_vars

(* --------------------------- ErrorLogger claims ----------------------- *)

\* C28: the window 'error' and 'unhandledrejection' listeners are registered
\* exactly once however many times ErrorLogger is constructed, so that one
\* uncaught error or rejection produces exactly one ERROR entry.
C28_ListenersOnce ==
  [][/\ listeners' = 1
     /\ last'.op \in {"globalError", "unhandledRejection"}
          => (appended' - appended) + (otherAppended' - otherAppended) = 1]_vars

\* the last Min(n, Len(lg)) entries of lg
LastEntries(lg, n) ==
  LET m == IF n < Len(lg) THEN n ELSE Len(lg)
  IN SubSeq(lg, Len(lg) - m + 1, Len(lg))

\* C29: getRecentLogs(n) returns the last min(n, size) entries for every
\* n >= 0 (none for n = 0) and leaves the buffer as it was.
C29_RecentLogs ==
  [][last'.op = "getRecentLogs"
       => /\ last'.pre[2] = LastEntries(logs, last'.pre[1])
          /\ logs' = logs]_vars

\* C30 as stated: clearLogs() returns the number of entries held before the
\* call and leaves the buffer empty.
C30_ClearLeavesEmpty ==
  [][last'.op = "clearLogs"
       => /\ last'.pre[1] = Len(logs)
          /\ logs' = <<>>]_vars

\* C30: clearLogs() returns the number of entries held before the call and
\* leaves the buffer holding exactly one entry, the INFO record of the
\* clearing.
C30_ClearLeavesRecord ==
  [][last'.op = "clearLogs"
       => /\ last'.pre[1] = Len(logs)
          /\ Len(logs') = 1
          /\ logs'[1].level = "INFO"
          /\ logs'[1].message = "Cleared log entries"]_vars

\* C30 witness: a buffer of several entries was cleared.
C30_Witness ==
  /\ last.op = "clearLogs"
  /\ last.pre[1] > 1
  /\ Len(logs) = 1

(* ------------------------- ChatController claims ---------------------- *)

\* C31: when sending a text message fails, the user message concerned is in
\* the timeline with status 'error', exactly one error is reported through
\* handleError, and the loading flag is false afterwards.
C31_FailedSendMarked ==
  [][(last'.op = "sendText" /\ last'.arg = "failed")
       => /\ \E k \in 1..Len(messages') :
               /\ messages'[k].sender = "user"
               /\ messages'[k].content = trim(last'.pre[1])
               /\ messages'[k].status = "error"
          /\ Len(errors') = Len(errors) + 1
          /\ isLoading' = FALSE]_vars

\* C32: handleSendMessage with empty or whitespace-only content changes
\* nothing: timeline, input buffer, loading flag and error state stay as
\* they were, no reply timer is started and nothing is reported.
C32_BlankSendNoOp ==
  [][(last'.op = "sendText" /\ trim(last'.pre[1]) = <<>>)
       => UNCHANGED <<messages, inputValue, isLoading, chatError, error, errors,
                      timers, timerSeq>>]_vars

\* C32 witness: a whitespace-only input was submitted with Ctrl/Cmd+Enter.
C32_Witness ==
  /\ last.op = "sendText"
  /\ last.pre[1] = <<" ">>
  /\ inputValue = <<" ">>

\* what may become of a message that stays in the timeline
SameOrDelivered(old, new) ==
  \/ new = old
  \/ /\ new = [old EXCEPT !.status = new.status]
     /\ old.status = "sending"
     /\ new.status \in {"sent", "error"}

\* C33: every operation of the mounted chat controller keeps the timeline as
\* a prefix of the new one: messages are only appended, and an existing
\* message changes at most its status, from 'sending' to 'sent' or 'error'.
C33_TimelineAppendOnly ==
  [][last'.op # "ChatUnmount"
       => /\ Len(messages') >= Len(messages)
          /\ \A k \in 1..Len(messages) : SameOrDelivered(messages[k], messages'[k])]_vars

\* C33 witness: a second exchange was appended behind the first.
C33_Witness ==
  /\ last.op = "timer" /\ last.live
  /\ Len(messages) = 4
  /\ messages[1].sender = "user" /\ messages[4].sender = "assistant"

C35_Escape ==
  [][last'.op = "escape"
       => /\ last'.pre[1] => (~isListening' /\ inputValue' = inputValue)
          /\ (~last'.pre[1] /\ last'.pre[2] # <<>>)
               => /\ inputValue' = <<>>
                  /\ UNCHANGED <<isConnected, isInCall, isListening, isSpeaking, error>>]_vars

\* C35 witness: Escape was pressed while listening with text in the buffer.
C35_Witness ==
  /\ last.op = "escape"
  /\ last.pre[1] /\ last.pre[2] # <<>>
  /\ ~isListening /\ inputValue = last.pre[2]

\* C36: Space with the focus in the chat text input changes neither
\* isListening nor the error state; Space elsewhere performs exactly one
\* toggleVoiceInput.
C36_Space ==
  [][last'.op = "space"
       => IF last'.arg = "input"
            THEN UNCHANGED <<isListening, error, chatError, errors>>
            ELSE /\ isListening' = last'.pre[1].isListening
                 /\ isSpeaking' = last'.pre[1].isSpeaking
                 /\ isConnected' = last'.pre[1].isConnected
                 /\ error' = last'.pre[1].error]_vars

\* C36 witness: Space was pressed in the text input of a connected chat that
\* holds text.
C36_Witness ==
  /\ last.op = "space" /\ last.arg = "input"
  /\ isConnected /\ ~isListening
  /\ inputValue # <<>>

\* C37: no user message is appended while a send is in progress or while
\* isListening is true, by the form or by Ctrl/Cmd+Enter.
C37_NoSendWhileBusy ==
  [][(/\ Len(messages') > Len(messages)
      /\ messages'[Len(messages')].sender = "user")
       => (~isLoading /\ ~isListening)]_vars

C39_ConversationEndFrame ==
  [][last'.op = "conversationEnd"
       => /\ ~isInCall' /\ ~isListening' /\ ~isSpeaking'
          /\ isConnected' = isConnected
          /\ error' = error]_vars

\* C40: whenever the manager's error becomes non-null, an AppError is added
\* to ErrorContext's active set in the same step.
C40_ManagerErrorShared ==
  [][(error = NullError /\ error' # NullError)
       => Len(errors') > Len(errors)]_vars

====
